---- MODULE Spec2Model ----
(***************************************************************************)
(* Model of the encounter chat session controller, ConsultByIdPage         *)
(* (src/frontend/src/app/history/page.tsx, lines 1070-1430): the transcript *)
(* state, the greeting bootstrap effect and its cleanup, sendMessage,       *)
(* openSSE with its token / done / error handlers, and the termination      *)
(* flow handleEndConsult / generateClinicalNote.                            *)
(*                                                                         *)
(* Text values (message contents, deltas, the compose buffer) are           *)
(* sequences of one-character strings, so that concatenation, trimming and  *)
(* chunk boundaries are computed and not assumed.                           *)
(*                                                                         *)
(* React state (useState) belongs to the mounted component: a setState      *)
(* call made by a continuation that runs after the unmount is dropped.      *)
(* Refs (useRef) and closures survive the unmount and stay writable.        *)
(* An EventSource dispatches no event once close() has been called on it.   *)
(* A state update made by a handler is applied in the step of the handler.  *)
(* sendMessage is modelled as the callback it is: the disabled prop that    *)
(* MessageInput derives from isSending and isStreaming is not part of it.   *)
(*                                                                         *)
(* Spec is the chat: bootstrap, submissions and streams.  SpecUI is the    *)
(* chat with submissions made through the compose control only.  SpecEnd    *)
(* is the termination flow with the review dialog.  SpecAll interleaves     *)
(* the handlers of both that issue requests.                                *)
(***************************************************************************)
EXTENDS Integers, Sequences, FiniteSets, TLC

(* ---------------- bounds of the model ---------------- *)
MaxClock == 1
MaxSends == 2
MaxTokens == 2
MaxActivations == 2
MaxTerms == 2
\* the submissions, tokens and terminations of the runs that interleave the
\* chat with the termination flow
AllSends == 2
AllTokens == 1
AllTerms == 1

(* ---------------- values ---------------- *)
NoId == "none"
Encounters == {"e1", "e2"}

Disclaimer == <<"D">>
DefaultGreeting == <<"G">>

\* bodies a successful greeting response may carry in its content field
\* (the empty text also stands for a response without the field)
GreetingBodies == {<<>>, <<"x">>}
\* outcomes of a request: a success response, a non-success status, a
\* rejected fetch, a success response whose body cannot be read
Failures == {"status", "throw", "badbody"}
GreetingResponses == [kind : {"ok"}, content : GreetingBodies] \cup [kind : Failures, content : {<<>>}]
PostOutcomes == {"ok", "status", "throw"}

\* what the user may have in the compose buffer
Inputs == {<<>>, <<" ">>, <<" ", "h">>}

\* token payloads: a JSON object with a text delta field, a text that is
\* not JSON, a JSON value without a delta field
Payloads == {[kind |-> "delta", content |-> <<"a">>], [kind |-> "delta", content |-> <<"b">>], [kind |-> "raw", content |-> <<"b">>], [kind |-> "nodelta", content |-> <<"a">>]}

\* an optional text: useState<string | undefined>, a field a response may
\* lack, a clipboard or a file that may not have been written
Undefined == [set |-> FALSE, text |-> <<>>]
Some(x) == [set |-> TRUE, text |-> x]

\* the placeholder of the fallback note for a chief complaint that is not set
Placeholder == <<"?">>

\* the note_md a successful generation response may carry (the empty text
\* also stands for a response without the field), and its chief_complaint
NoteBodies == {<<>>, <<"n">>}
ReturnedChiefs == {Undefined, Some(<<>>), Some(<<"c">>)}
GenResponses == [kind : {"ok"}, content : NoteBodies, chief : ReturnedChiefs] \cup [kind : Failures, content : {<<>>}, chief : {Undefined}]
EndOutcomes == {"ok", "status", "throw"}

\* outcomes of navigator.clipboard.writeText
CopyOutcomes == {"ok", "denied"}

VARIABLES
  now,              \* Date.now()
  mounted,          \* the component instance is mounted
  encounterId,      \* useParams().encounterId, NoId when unbound
  acts,             \* the runs of the boot effect, each with its aborted flag
  messages,         \* useState: the transcript
  input,            \* useState: the compose buffer
  isSending,        \* useState
  isStreaming,      \* useState
  sseRef,           \* useRef: index in sessions of the referenced EventSource, 0 for null
  assistantBufferRef, \* useRef: the accumulation buffer
  sessions,         \* every EventSource created by openSSE, with its closure
  sends,            \* every sendMessage call that issued a POST, with its closure
  navigated,        \* router.push("/") has been called
  chiefComplaint,   \* useState
  noteOpen,         \* useState: the review dialog is open
  noteMD,           \* useState: the text of the clinical note
  noteLoading,      \* useState
  terms,            \* every handleEndConsult call, with its closure
  clipboard,        \* the text on the system clipboard
  saved,            \* the content of the last downloaded file
  last              \* history: the handler that ran in the last step, with its input

\* the state of the chat and the state of the termination flow
chatVars == <<messages, input, isSending, isStreaming, sseRef, assistantBufferRef, sessions, sends>>
noteVars == <<chiefComplaint, noteOpen, noteMD, noteLoading, terms, clipboard, saved>>

vars == <<now, mounted, encounterId, acts, navigated, chatVars, noteVars, last>>

\* the state of the component and its refs, without the clock and the history
view == <<mounted, encounterId, acts, navigated, chatVars, noteVars>>

(* ---------------- pure helpers ---------------- *)

\* String.prototype.trim on the compose buffer
RECURSIVE TrimLeft(_)
TrimLeft(s) ==
  IF s = <<>> THEN <<>>
  ELSE IF Head(s) = " " THEN TrimLeft(Tail(s)) ELSE s

RECURSIVE TrimRight(_)
TrimRight(s) ==
  IF s = <<>> THEN <<>>
  ELSE IF s[Len(s)] = " " THEN TrimRight(SubSeq(s, 1, Len(s) - 1)) ELSE s

Trim(s) == TrimRight(TrimLeft(s))

\* a setState call: dropped when the component is no longer mounted
SetState(cur, new) == IF mounted THEN new ELSE cur

\* the index of the current run of the boot effect, 0 when there is none
CurAct == IF mounted /\ encounterId /= NoId THEN Len(acts) ELSE 0

\* mutant: the response body is ignored
GreetingContentIgnored(res) == DefaultGreeting

\* content = data?.content || "default"
GreetingContent(res) ==
  IF res.kind = "ok" /\ res.content /= <<>> THEN res.content ELSE DefaultGreeting

\* the two entries boot seeds; uid is the history of where an entry comes from
SeedTranscript(content, t, a) ==
  << [id |-> [p |-> "sys", n |-> t], role |-> "system", content |-> Disclaimer, createdAt |-> t, uid |-> [t |-> "sys", k |-> a]],
     [id |-> [p |-> "asst", n |-> t + 1], role |-> "assistant", content |-> content, createdAt |-> t, uid |-> [t |-> "greet", k |-> a]] >>

\* the user entry of the k-th submission
UserMsg(content, t, k) ==
  [id |-> [p |-> "user", n |-> t], role |-> "user", content |-> content, createdAt |-> t, uid |-> [t |-> "user", k |-> k]]

\* mutant: the pending entry is created with a filler text
PendingMsgFilled(t, k) ==
  [id |-> [p |-> "asst", n |-> t], role |-> "assistant", content |-> <<".">>, createdAt |-> t, uid |-> [t |-> "asst", k |-> k]]

\* the pending assistant entry openSSE appends for the k-th submission
PendingMsg(t, k) ==
  [id |-> [p |-> "asst", n |-> t], role |-> "assistant", content |-> <<>>, createdAt |-> t, uid |-> [t |-> "asst", k |-> k]]

\* mutant: the new entry is put in front
AppendEntryFront(prev, m) == <<m>> \o prev

\* setMessages((prev) => [...prev, m])
AppendEntry(prev, m) == Append(prev, m)

\* the text a token payload adds to the buffer: parsed.delta ?? "" when the
\* payload parses, the payload itself when it does not
TokenDelta(p) ==
  CASE p.kind = "delta" -> p.content
    [] p.kind = "nodelta" -> <<>>
    [] OTHER -> p.content

\* mutant: every assistant entry is given the buffer
ApplyTokenByRole(prev, tempId, buf) ==
  [i \in DOMAIN prev |-> IF prev[i].role = "assistant" THEN [prev[i] EXCEPT !.content = buf] ELSE prev[i]]

\* mutant: the updated entry is moved to the end of the transcript
ApplyTokenMoveLast(prev, tempId, buf) ==
  SelectSeq(prev, LAMBDA m : m.id /= tempId) \o
    [i \in 1..Len(SelectSeq(prev, LAMBDA m : m.id = tempId)) |->
       [SelectSeq(prev, LAMBDA m : m.id = tempId)[i] EXCEPT !.content = buf]]

\* prev.map((m) => m.id === tempId ? {...m, content: buffer} : m)
ApplyToken(prev, tempId, buf) ==
  [i \in DOMAIN prev |-> IF prev[i].id = tempId THEN [prev[i] EXCEPT !.content = buf] ELSE prev[i]]

\* EventSource.close() on session i of ss
CloseEs(ss, i) == [ss EXCEPT ![i].open = FALSE, ![i].recv = <<>>]

\* sseRef.current?.close()
CloseRef(ss, ref) == IF ref = 0 THEN ss ELSE CloseEs(ss, ref)

(* ---------------- initial state ---------------- *)

NewAct(e) == [enc |-> e, aborted |-> FALSE, pc |-> "fetch", fetches |-> 1]

\* the record of a handler run: its name, the object it ran on (i), the
\* connection it closed (j), the kind and the text of its input
Op(name, i, j, kind, content) == [op |-> name, i |-> i, j |-> j, kind |-> kind, content |-> content]

Init ==
  /\ now = 0
  /\ mounted = TRUE
  /\ encounterId \in {"e1", NoId}
  /\ acts = IF encounterId = NoId THEN <<>> ELSE <<NewAct(encounterId)>>
  /\ messages = <<>>
  /\ input = <<>>
  /\ isSending = FALSE
  /\ isStreaming = FALSE
  /\ sseRef = 0
  /\ assistantBufferRef = <<>>
  /\ sessions = <<>>
  /\ sends = <<>>
  /\ navigated = FALSE
  /\ chiefComplaint = Undefined
  /\ noteOpen = FALSE
  /\ noteMD = <<>>
  /\ noteLoading = FALSE
  /\ terms = <<>>
  /\ clipboard = Undefined
  /\ saved = Undefined
  /\ last = Op("mount", 0, 0, "", <<>>)

(* ---------------- actions ---------------- *)

\* the clock advances
Tick ==
  /\ now < MaxClock
  /\ now' = now + 1
  /\ UNCHANGED <<view, last>>

\* the user edits the compose buffer (typing, quick reply, chip), as long as
\* a submission can follow within the bounds
SetInput(v) ==
  /\ mounted
  /\ Len(sends) < MaxSends
  /\ v /= input
  /\ input' = v
  /\ UNCHANGED last
  /\ UNCHANGED <<now, mounted, encounterId, acts, messages, isSending, isStreaming, sseRef, assistantBufferRef, sessions, sends, navigated>>
  /\ UNCHANGED noteVars

\* mutant: the catch branch seeds nothing
CatchSeedNothing(t, a) == <<>>

\* the entries the catch branch of boot seeds
CatchSeed(t, a) == SeedTranscript(DefaultGreeting, t, a)

\* boot: the greeting fetch of run a settles with response res
BootSettle(a, res) ==
  /\ acts[a].pc = "fetch"
  /\ acts' = [acts EXCEPT ![a].pc = "done"]
  /\ messages' =
       IF res.kind \in {"throw", "badbody"}
         THEN SetState(messages, CatchSeed(now, a))
       ELSE IF ~acts[a].aborted
         THEN SetState(messages, SeedTranscript(GreetingContent(res), now, a))
       ELSE messages
  /\ last' = Op("boot", a, 0, res.kind, res.content)
  /\ UNCHANGED <<now, mounted, encounterId, input, isSending, isStreaming, sseRef, assistantBufferRef, sessions, sends, navigated>>
  /\ UNCHANGED noteVars

\* the cleanup of the boot effect: aborted = true
Cleanup(as) ==
  IF as = <<>> \/ encounterId = NoId THEN as
  ELSE [as EXCEPT ![Len(as)].aborted = TRUE]

\* mutant: the cleanup drops the reference without closing the connection
CleanupCloseNothing(ss, ref) == ss

\* the cleanup of the boot effect: sseRef.current?.close()
CleanupClose(ss, ref) == IF encounterId = NoId THEN ss ELSE CloseRef(ss, ref)

\* the route parameter changes: the effect is cleaned up and runs again
ChangeEncounter(e) ==
  /\ mounted
  /\ encounterId /= NoId
  /\ e /= encounterId
  /\ Len(acts) < MaxActivations
  /\ encounterId' = e
  /\ acts' = Append(Cleanup(acts), NewAct(e))
  /\ sessions' = CleanupClose(sessions, sseRef)
  /\ sseRef' = IF encounterId = NoId THEN sseRef ELSE 0
  /\ last' = Op("change", 0, sseRef, "", <<>>)
  /\ UNCHANGED <<now, mounted, messages, input, isSending, isStreaming, assistantBufferRef, sends, navigated>>
  /\ UNCHANGED noteVars

\* the component unmounts: the effect is cleaned up and the state of the
\* component is discarded
Unmount ==
  /\ mounted
  /\ mounted' = FALSE
  /\ acts' = Cleanup(acts)
  /\ sessions' = CleanupClose(sessions, sseRef)
  /\ sseRef' = IF encounterId = NoId THEN sseRef ELSE 0
  /\ last' = Op("unmount", 0, sseRef, "", <<>>)
  /\ messages' = <<>>
  /\ input' = <<>>
  /\ isSending' = FALSE
  /\ isStreaming' = FALSE
  /\ chiefComplaint' = Undefined
  /\ noteOpen' = FALSE
  /\ noteMD' = <<>>
  /\ noteLoading' = FALSE
  /\ UNCHANGED <<now, encounterId, assistantBufferRef, sends, navigated, terms, clipboard, saved>>

\* mutant: the content is checked before the encounter id
ValidateContentFirst(id, text) ==
  IF Trim(text) = <<>> THEN "empty"
  ELSE IF id = NoId THEN "redirect"
  ELSE "valid"

\* mutant: the content is checked without trimming
ValidateUntrimmed(id, text) ==
  IF id = NoId THEN "redirect"
  ELSE IF text = <<>> THEN "empty"
  ELSE "valid"

\* the outcome of the validation of sendMessage
Validate(id, text) ==
  IF id = NoId THEN "redirect"
  ELSE IF Trim(text) = <<>> THEN "empty"
  ELSE "valid"

\* sendMessage(): validation, optimistic append, POST issued
SendMessage ==
  /\ mounted
  /\ Len(sends) < MaxSends
  /\ last' = Op("send", Len(sends) + 1, 0, Validate(encounterId, input), input)
  /\ CASE Validate(encounterId, input) = "redirect" ->
            /\ navigated' = TRUE
            /\ UNCHANGED <<messages, input, isSending, sends>>
       [] Validate(encounterId, input) = "empty" ->
            UNCHANGED <<messages, input, isSending, sends, navigated>>
       [] OTHER ->
            /\ isSending' = TRUE
            /\ messages' = AppendEntry(messages, UserMsg(Trim(input), now, Len(sends) + 1))
            /\ input' = <<>>
            /\ sends' = Append(sends, [enc |-> encounterId, act |-> CurAct, pc |-> "post", posts |-> 1])
            /\ UNCHANGED navigated
  /\ UNCHANGED <<now, mounted, encounterId, acts, isStreaming, sseRef, assistantBufferRef, sessions>>
  /\ UNCHANGED noteVars

\* openSSE() of the closure of send k: the new EventSource with its closure
NewSession(k) ==
  [enc |-> sends[k].enc, open |-> TRUE, tempId |-> [p |-> "asst", n |-> now], recv |-> <<>>, n |-> 0, act |-> sends[k].act, send |-> k]

\* mutant: the buffer of the previous session is carried over
BufferAtOpenKept(buf) == buf

\* openSSE(): assistantBufferRef.current = ""
BufferAtOpen(buf) == <<>>

\* mutant: the referenced connection is not closed
OpenSessionsNoClose(ss, ref, k) == Append(ss, NewSession(k))

\* openSSE(): the sessions after closing the referenced one and creating the new one
OpenSessions(ss, ref, k) == Append(CloseRef(ss, ref), NewSession(k))

\* mutant: the status of the response is not checked
OpensStreamUnlessThrown(outcome) == outcome /= "throw"

\* sendMessage reaches openSSE(): the fetch resolved and res.ok holds
OpensStream(outcome) == outcome = "ok"

\* mutant: a failed POST is sent once more
ReissuedOnFailure(outcome) == IF outcome = "ok" THEN 0 ELSE 1

\* the POSTs the catch and finally blocks of sendMessage issue: none
Reissued(outcome) == 0

\* mutant: isSending is cleared after openSSE() in the try block, not in a
\* finally block
PostSettleNoFinally(k, outcome) ==
  /\ sends[k].pc = "post"
  /\ sends' = [sends EXCEPT ![k].pc = "settled", ![k].posts = @ + Reissued(outcome)]
  /\ isSending' = IF OpensStream(outcome) THEN SetState(isSending, FALSE) ELSE isSending
  /\ last' = Op("post", k, sseRef, outcome, <<>>)
  /\ IF OpensStream(outcome)
       THEN /\ sessions' = OpenSessions(sessions, sseRef, k)
            /\ sseRef' = Len(sessions) + 1
            /\ isStreaming' = SetState(isStreaming, TRUE)
            /\ assistantBufferRef' = BufferAtOpen(assistantBufferRef)
            /\ messages' = SetState(messages, AppendEntry(messages, PendingMsg(now, k)))
       ELSE UNCHANGED <<sessions, sseRef, isStreaming, assistantBufferRef, messages>>
  /\ UNCHANGED <<now, mounted, encounterId, acts, input, navigated>>
  /\ UNCHANGED noteVars

\* the POST of send k settles; on success openSSE() runs; finally isSending is cleared
PostSettle(k, outcome) ==
  /\ sends[k].pc = "post"
  /\ sends' = [sends EXCEPT ![k].pc = "settled", ![k].posts = @ + Reissued(outcome)]
  /\ isSending' = SetState(isSending, FALSE)
  /\ last' = Op("post", k, sseRef, outcome, <<>>)
  /\ IF OpensStream(outcome)
       THEN /\ sessions' = OpenSessions(sessions, sseRef, k)
            /\ sseRef' = Len(sessions) + 1
            /\ isStreaming' = SetState(isStreaming, TRUE)
            /\ assistantBufferRef' = BufferAtOpen(assistantBufferRef)
            /\ messages' = SetState(messages, AppendEntry(messages, PendingMsg(now, k)))
       ELSE UNCHANGED <<sessions, sseRef, isStreaming, assistantBufferRef, messages>>
  /\ UNCHANGED <<now, mounted, encounterId, acts, input, navigated>>
  /\ UNCHANGED noteVars

\* the delta a token event carries, none for a payload without one
Carried(p) == IF p.kind = "nodelta" THEN <<>> ELSE p.content

\* number of token events dispatched so far
RECURSIVE SumTokens(_, _)
SumTokens(ss, i) == IF i = 0 THEN 0 ELSE ss[i].n + SumTokens(ss, i - 1)

TokensReceived == SumTokens(sessions, Len(sessions))

\* a token event is dispatched on EventSource s
Token(s, p) ==
  /\ sessions[s].open
  /\ TokensReceived < MaxTokens
  /\ assistantBufferRef' = assistantBufferRef \o TokenDelta(p)
  /\ messages' = SetState(messages, ApplyToken(messages, sessions[s].tempId, assistantBufferRef'))
  /\ sessions' = [sessions EXCEPT ![s].recv = @ \o Carried(p), ![s].n = @ + 1]
  /\ last' = Op("token", s, 0, p.kind, p.content)
  /\ UNCHANGED <<now, mounted, encounterId, acts, input, isSending, isStreaming, sseRef, sends, navigated>>
  /\ UNCHANGED noteVars

\* mutant: the done handler leaves the progress flag set
DoneKeepsStreaming(s) ==
  /\ sessions[s].open
  /\ sessions' = CloseEs(sessions, s)
  /\ sseRef' = 0
  /\ last' = Op("done", s, s, "", <<>>)
  /\ UNCHANGED <<now, mounted, encounterId, acts, messages, input, isSending, isStreaming, assistantBufferRef, sends, navigated>>
  /\ UNCHANGED noteVars

\* a done event is dispatched on EventSource s
Done(s) ==
  /\ sessions[s].open
  /\ isStreaming' = SetState(isStreaming, FALSE)
  /\ sessions' = CloseEs(sessions, s)
  /\ sseRef' = 0
  /\ last' = Op("done", s, s, "", <<>>)
  /\ UNCHANGED <<now, mounted, encounterId, acts, messages, input, isSending, assistantBufferRef, sends, navigated>>
  /\ UNCHANGED noteVars

\* mutant: the error handler leaves the reference in place
ErrorKeepsRef(s) ==
  /\ sessions[s].open
  /\ isStreaming' = SetState(isStreaming, FALSE)
  /\ sessions' = CloseEs(sessions, s)
  /\ last' = Op("error", s, s, "", <<>>)
  /\ UNCHANGED <<now, mounted, encounterId, acts, messages, input, isSending, sseRef, assistantBufferRef, sends, navigated>>
  /\ UNCHANGED noteVars

\* an error event is dispatched on EventSource s
Error(s) ==
  /\ sessions[s].open
  /\ isStreaming' = SetState(isStreaming, FALSE)
  /\ sessions' = CloseEs(sessions, s)
  /\ sseRef' = 0
  /\ last' = Op("error", s, s, "", <<>>)
  /\ UNCHANGED <<now, mounted, encounterId, acts, messages, input, isSending, assistantBufferRef, sends, navigated>>
  /\ UNCHANGED noteVars

(* ---------------- termination and review ---------------- *)

\* new Date().toLocaleString() at clock t
Digits == <<"0", "1", "2", "3">>
Stamp(t) == <<Digits[t + 1]>>

\* the fallback note of generateClinicalNote: the fixed template with the
\* chief complaint cc of the closure (the placeholder when it is undefined)
\* and the time of generation
FallbackNote(cc, t) ==
  <<"#">> \o (IF cc.set THEN cc.text ELSE Placeholder) \o <<"-">> \o Stamp(t)

\* String(data?.note_md || "")
NoteText(res) == res.content

\* mutant: the chief complaint is overwritten by whatever the response has
AdoptChiefAlways(cur, ret) == ret

\* if (data?.chief_complaint) setChiefComplaint(String(data.chief_complaint))
AdoptChief(cur, ret) == IF ret.set /\ ret.text /= <<>> THEN ret ELSE cur

\* mutant: ending the consultation closes the referenced stream
HandleEndConsultClosesStream ==
  /\ mounted
  /\ encounterId /= NoId
  /\ Len(terms) < MaxTerms
  /\ terms' = Append(terms, [enc |-> encounterId, cc |-> chiefComplaint, pc |-> "end", ends |-> 1, gens |-> 0, chief |-> Undefined])
  /\ last' = Op("end", Len(terms) + 1, 0, "", <<>>)
  /\ sessions' = CloseRef(sessions, sseRef)
  /\ sseRef' = 0
  /\ UNCHANGED <<now, mounted, encounterId, acts, navigated, messages, input, isSending, isStreaming, assistantBufferRef, sends>>
  /\ UNCHANGED <<chiefComplaint, noteOpen, noteMD, noteLoading, clipboard, saved>>

\* handleEndConsult(): the end request is issued; the closure keeps the
\* encounter id and the chief complaint of the render it was created in
HandleEndConsult ==
  /\ mounted
  /\ encounterId /= NoId
  /\ Len(terms) < MaxTerms
  /\ terms' = Append(terms, [enc |-> encounterId, cc |-> chiefComplaint, pc |-> "end", ends |-> 1, gens |-> 0, chief |-> Undefined])
  /\ last' = Op("end", Len(terms) + 1, 0, "", <<>>)
  /\ UNCHANGED <<now, mounted, encounterId, acts, navigated, chatVars>>
  /\ UNCHANGED <<chiefComplaint, noteOpen, noteMD, noteLoading, clipboard, saved>>

\* mutant: a rejected end request ends the termination
GenCallsOnlyWhenResolved(outcome) == IF outcome = "throw" THEN 0 ELSE 1

\* the calls of generateClinicalNote() handleEndConsult makes once the end
\* request has settled: one after the await, or one in the catch block
GenCalls(outcome) == 1

\* the end request of termination t settles; generateClinicalNote() starts:
\* setNoteLoading(true) and the generation request
EndSettle(t, outcome) ==
  /\ terms[t].pc = "end"
  /\ terms' = [terms EXCEPT ![t].pc = IF GenCalls(outcome) > 0 THEN "gen" ELSE "done", ![t].gens = @ + GenCalls(outcome)]
  /\ noteLoading' = IF GenCalls(outcome) > 0 THEN SetState(noteLoading, TRUE) ELSE noteLoading
  /\ last' = Op("endsettle", t, 0, outcome, <<>>)
  /\ UNCHANGED <<now, mounted, encounterId, acts, navigated, chatVars>>
  /\ UNCHANGED <<chiefComplaint, noteOpen, noteMD, clipboard, saved>>

\* the generation request of termination t settles with response res
GenSettle(t, res) ==
  /\ terms[t].pc = "gen"
  /\ terms' = [terms EXCEPT ![t].pc = "done", ![t].chief = res.chief]
  /\ IF res.kind = "ok"
       THEN /\ noteMD' = SetState(noteMD, NoteText(res))
            /\ chiefComplaint' = SetState(chiefComplaint, AdoptChief(chiefComplaint, res.chief))
       ELSE /\ noteMD' = SetState(noteMD, FallbackNote(terms[t].cc, now))
            /\ UNCHANGED chiefComplaint
  /\ noteOpen' = SetState(noteOpen, TRUE)
  /\ noteLoading' = SetState(noteLoading, FALSE)
  /\ last' = Op("gen", t, 0, res.kind, res.content)
  /\ UNCHANGED <<now, mounted, encounterId, acts, navigated, chatVars>>
  /\ UNCHANGED <<clipboard, saved>>

\* the dialog is dismissed: onClose={() => setNoteOpen(false)}
CloseDialog ==
  /\ mounted
  /\ noteOpen
  /\ noteOpen' = FALSE
  /\ last' = Op("close", 0, 0, "", <<>>)
  /\ UNCHANGED <<now, mounted, encounterId, acts, navigated, chatVars>>
  /\ UNCHANGED <<chiefComplaint, noteMD, noteLoading, terms, clipboard, saved>>

\* mutant: the button navigates and leaves the dialog open
GoHomeKeepsOpen ==
  /\ mounted
  /\ noteOpen
  /\ navigated' = TRUE
  /\ last' = Op("home", 0, 0, "", <<>>)
  /\ UNCHANGED <<now, mounted, encounterId, acts, chatVars>>
  /\ UNCHANGED <<chiefComplaint, noteOpen, noteMD, noteLoading, terms, clipboard, saved>>

\* the last button of the dialog: setNoteOpen(false); router.push("/")
GoHome ==
  /\ mounted
  /\ noteOpen
  /\ noteOpen' = FALSE
  /\ navigated' = TRUE
  /\ last' = Op("home", 0, 0, "", <<>>)
  /\ UNCHANGED <<now, mounted, encounterId, acts, chatVars>>
  /\ UNCHANGED <<chiefComplaint, noteMD, noteLoading, terms, clipboard, saved>>

\* copyNote(): navigator.clipboard.writeText(noteMD); a rejection is logged
CopyNote(outcome) ==
  /\ mounted
  /\ noteOpen
  /\ clipboard' = IF outcome = "ok" THEN Some(noteMD) ELSE clipboard
  /\ last' = Op("copy", 0, 0, outcome, noteMD)
  /\ UNCHANGED <<now, mounted, encounterId, acts, navigated, chatVars>>
  /\ UNCHANGED <<chiefComplaint, noteOpen, noteMD, noteLoading, terms, saved>>

\* new Blob(parts): the concatenation of the parts
RECURSIVE BlobText(_)
BlobText(parts) == IF parts = <<>> THEN <<>> ELSE Head(parts) \o BlobText(Tail(parts))

\* mutant: the file is created without the note
DownloadMarkdownEmpty(filename, content) == BlobText(<<>>)

\* downloadMarkdown(filename, content): the content of the downloaded file
DownloadMarkdown(filename, content) == BlobText(<<content>>)

\* saveNote(): downloadMarkdown(filename, noteMD)
SaveNote ==
  /\ mounted
  /\ noteOpen
  /\ saved' = Some(DownloadMarkdown(<<"f">> \o Stamp(now), noteMD))
  /\ last' = Op("save", 0, 0, "", noteMD)
  /\ UNCHANGED <<now, mounted, encounterId, acts, navigated, chatVars>>
  /\ UNCHANGED <<chiefComplaint, noteOpen, noteMD, noteLoading, terms, clipboard>>

Next ==
  \/ Tick
  \/ \E v \in Inputs : SetInput(v)
  \/ \E a \in DOMAIN acts : \E res \in GreetingResponses : BootSettle(a, res)
  \/ \E e \in Encounters : ChangeEncounter(e)
  \/ Unmount
  \/ SendMessage
  \/ \E k \in DOMAIN sends : \E outcome \in PostOutcomes : PostSettle(k, outcome)
  \/ \E s \in DOMAIN sessions : \E p \in Payloads : Token(s, p)
  \/ \E s \in DOMAIN sessions : Done(s)
  \/ \E s \in DOMAIN sessions : Error(s)

Spec == Init /\ [][Next]_vars

\* mutant: the compose control is disabled only while a POST is in flight
ComposeDisabledWhileSending == isSending

\* MessageInput disabled={isSending || isStreaming}
ComposeDisabled == isSending \/ isStreaming

\* a submission through the compose control: Enter in the text field or the
\* send button, neither of which acts while the control is disabled
ComposeSend ==
  /\ ~ComposeDisabled
  /\ SendMessage

\* the chat as the user can drive it: submissions come from the compose control
NextUI ==
  \/ Tick
  \/ \E v \in Inputs : SetInput(v)
  \/ \E a \in DOMAIN acts : \E res \in GreetingResponses : BootSettle(a, res)
  \/ \E e \in Encounters : ChangeEncounter(e)
  \/ Unmount
  \/ ComposeSend
  \/ \E k \in DOMAIN sends : \E outcome \in PostOutcomes : PostSettle(k, outcome)
  \/ \E s \in DOMAIN sessions : \E p \in Payloads : Token(s, p)
  \/ \E s \in DOMAIN sessions : Done(s)
  \/ \E s \in DOMAIN sessions : Error(s)

SpecUI == Init /\ [][NextUI]_vars

\* the termination flow and the review dialog of one encounter, with the
\* clock and the unmount
NextEnd ==
  \/ Tick
  \/ Unmount
  \/ HandleEndConsult
  \/ \E t \in DOMAIN terms : \E outcome \in EndOutcomes : EndSettle(t, outcome)
  \/ \E t \in DOMAIN terms : \E res \in GenResponses : GenSettle(t, res)
  \/ CloseDialog
  \/ GoHome
  \/ \E outcome \in CopyOutcomes : CopyNote(outcome)
  \/ SaveNote

SpecEnd == Init /\ [][NextEnd]_vars

\* every handler that issues a request, with the responses and events that
\* follow: the chat beside the termination flow, at a fixed clock
ChatResponses == {[kind |-> "ok", content |-> <<"x">>], [kind |-> "status", content |-> <<>>], [kind |-> "throw", content |-> <<>>]}
TermResponses == {[kind |-> "ok", content |-> <<"n">>, chief |-> Some(<<"c">>)], [kind |-> "status", content |-> <<>>, chief |-> Undefined], [kind |-> "throw", content |-> <<>>, chief |-> Undefined]}

NextAll ==
  \/ Len(sends) < AllSends /\ SetInput(<<" ", "h">>)
  \/ \E a \in DOMAIN acts : \E res \in ChatResponses : BootSettle(a, res)
  \/ \E e \in Encounters : ChangeEncounter(e)
  \/ Unmount
  \/ Len(sends) < AllSends /\ SendMessage
  \/ \E k \in DOMAIN sends : \E outcome \in PostOutcomes : PostSettle(k, outcome)
  \/ \E s \in DOMAIN sessions : TokensReceived < AllTokens /\ Token(s, [kind |-> "delta", content |-> <<"a">>])
  \/ \E s \in DOMAIN sessions : Done(s)
  \/ \E s \in DOMAIN sessions : Error(s)
  \/ Len(terms) < AllTerms /\ HandleEndConsult
  \/ \E t \in DOMAIN terms : \E outcome \in EndOutcomes : EndSettle(t, outcome)
  \/ \E t \in DOMAIN terms : \E res \in TermResponses : GenSettle(t, res)

SpecAll == Init /\ [][NextAll]_vars

(* ---------------- properties ---------------- *)

\* the EventSources that are open
Live == {s \in DOMAIN sessions : sessions[s].open}

\* the positions in transcript m of the entries that come from origin u
At(m, u) == {i \in DOMAIN m : m[i].uid = u}

\* transcript m is exactly a disclaimer followed by an assistant entry with content c
IsSeed(m, c) ==
  /\ Len(m) = 2
  /\ m[1].role = "system" /\ m[1].content = Disclaimer
  /\ m[2].role = "assistant" /\ m[2].content = c

\* the greeting fetch of run a settles in this step
BootStep(a) == acts[a].pc = "fetch" /\ acts'[a].pc = "done" /\ last'.op = "boot" /\ last'.i = a

\* C1: when openSSE runs while an earlier session is live, the earlier
\* connection is closed; afterwards nothing is dispatched on a closed
\* session (its record, with its count of tokens, never changes again); the
\* buffer is written only by a token event of the live session or by
\* openSSE; the reference to a live session is dropped, and the progress
\* flag of a live session cleared, only by a done or error event of that
\* very session, by the effect cleanup, or by a later openSSE.
C1_SupersessionSilencesEarlier ==
  [][ /\ Len(sessions') > Len(sessions) => \A s \in DOMAIN sessions : ~sessions'[s].open
      /\ \A s \in DOMAIN sessions : ~sessions[s].open => sessions'[s] = sessions[s]
      /\ assistantBufferRef' /= assistantBufferRef =>
            \/ last'.op = "token" /\ last'.i \in Live /\ sseRef = last'.i
            \/ last'.op = "post" /\ last'.kind = "ok"
      /\ \A s \in Live : sseRef = s /\ sseRef' /= s =>
            \/ last'.op \in {"done", "error"} /\ last'.i = s
            \/ last'.op \in {"unmount", "change", "post"} /\ last'.j = s
      /\ \A s \in Live : sseRef = s /\ mounted /\ isStreaming /\ ~isStreaming' =>
            \/ last'.op \in {"done", "error"} /\ last'.i = s
            \/ last'.op = "unmount" ]_vars

\* C1 witness: a second session was opened while the first was live
C1_Witness ==
  /\ last.op = "post" /\ last.kind = "ok" /\ last.j = 1
  /\ Len(sessions) = 2 /\ ~sessions[1].open /\ sessions[2].open /\ sessions[1].n > 0

\* C2: while a session is live, the content of the assistant entry it
\* appended equals the concatenation, in receipt order, of the deltas
\* received on that session, and of nothing else.
C2_DeltaAccumulation ==
  \A s \in Live : \A i \in At(messages, [t |-> "asst", k |-> sessions[s].send]) :
    messages[i].content = sessions[s].recv

\* C2 witness: two deltas received in order on the second session, after the
\* first session ended
C2_Witness ==
  /\ Len(sessions) = 2 /\ sessions[2].open /\ sessions[2].recv = <<"a", "b">>
  /\ \E i \in At(messages, [t |-> "asst", k |-> sessions[2].send]) : messages[i].content = <<"a", "b">>

\* C3 (as claimed): no connection opened by a disposed run of the effect is open.
C3_DisposalClosesStream ==
  \A s \in Live : ~acts[sessions[s].act].aborted

\* the submission an assistant entry answers has its session ended
Finalized(e) ==
  /\ e.uid.t = "asst"
  /\ \E s \in DOMAIN sessions : sessions[s].send = e.uid.k /\ ~sessions[s].open

\* C4 (as claimed): the content of an entry whose session has ended never changes.
C4_FinalizedImmutable ==
  [][ \A i \in DOMAIN messages : Finalized(messages[i]) =>
        \A j \in At(messages', messages[i].uid) : messages'[j].content = messages[i].content ]_vars

\* C5: at most one EventSource is open, and it is the one the view references.
C5_AtMostOneLive ==
  /\ Cardinality(Live) <= 1
  /\ \A s \in Live : sseRef = s

\* C5 witness: the second session streams after the first was closed
C5_Witness ==
  /\ Len(sessions) = 2 /\ sseRef = 2 /\ sessions[2].open /\ sessions[2].n > 0
  /\ ~sessions[1].open

\* the entries a token event of an open session would write
Pending == {i \in DOMAIN messages : \E s \in Live : messages[i].id = sessions[s].tempId}

\* C6 (as claimed): at most one entry is pending.
C6_OnePending == Cardinality(Pending) <= 1

\* C7 (as claimed): for every greeting response {content: X} the transcript
\* after the bootstrap is [disclaimer, assistant X].
C7_BootSuccessAnyContent ==
  [][ \A a \in DOMAIN acts : BootStep(a) /\ last'.kind = "ok" /\ ~acts[a].aborted =>
        IsSeed(messages', last'.content) ]_vars

\* C7 (amended): for every greeting response whose content X is not empty,
\* the transcript after the bootstrap of a run that was not disposed is
\* exactly [disclaimer, assistant X]; with an empty or missing content the
\* assistant entry carries the fixed default greeting.
C7_BootSuccess ==
  [][ \A a \in DOMAIN acts : BootStep(a) /\ last'.kind = "ok" /\ ~acts[a].aborted =>
        IF last'.content /= <<>>
          THEN IsSeed(messages', last'.content)
          ELSE IsSeed(messages', DefaultGreeting) ]_vars

\* C7 witness: the bootstrap completed with content x
C7_Witness ==
  /\ last.op = "boot" /\ last.kind = "ok" /\ last.content = <<"x">>
  /\ IsSeed(messages, <<"x">>)
  /\ messages[1].uid.t = "sys" /\ messages[2].uid.t = "greet"

\* C8: when the greeting fetch of a run that was not disposed fails
\* (non-success status, rejected fetch, unreadable body), the transcript
\* after the bootstrap is exactly [disclaimer, assistant default greeting]
\* and nothing else of the state changes.
C8_BootFailure ==
  [][ \A a \in DOMAIN acts : BootStep(a) /\ last'.kind \in Failures /\ ~acts[a].aborted =>
        /\ IsSeed(messages', DefaultGreeting)
        /\ UNCHANGED <<mounted, encounterId, input, isSending, isStreaming, sseRef, assistantBufferRef, sessions, sends, navigated>> ]_vars

\* C8 witness: the bootstrap completed after a rejected fetch
C8_Witness ==
  /\ last.op = "boot" /\ last.kind = "throw" /\ mounted
  /\ IsSeed(messages, DefaultGreeting)

\* C9: a submission with a bound encounter id and a compose buffer that is
\* empty after trimming changes nothing of the state.
C9_EmptySubmissionNoEffect ==
  [][ last'.op = "send" /\ last' /= last /\ encounterId /= NoId /\ Trim(input) = <<>> =>
        UNCHANGED view ]_vars

\* C9 witness: a whitespace-only buffer was submitted after an earlier message
C9_Witness ==
  /\ last.op = "send" /\ last.kind = "empty" /\ last.content = <<" ">> /\ input = <<" ">>
  /\ Len(sends) = 1 /\ Len(messages) > 0

\* C10: a valid submission appends the user entry in the step that issues
\* the POST; a stream is opened only by the settlement of a POST that was in
\* flight and succeeded; in every transcript the user entry of a submission
\* is positioned before the assistant entry of that submission.
C10_SubmissionOrdering ==
  [][ /\ Len(sends') > Len(sends) =>
            /\ Len(messages') = Len(messages) + 1
            /\ messages'[Len(messages')].uid = [t |-> "user", k |-> Len(sends')]
            /\ messages'[Len(messages')].content = Trim(input)
            /\ sends'[Len(sends')].pc = "post"
      /\ Len(sessions') > Len(sessions) =>
            /\ last'.op = "post" /\ last'.kind = "ok"
            /\ sends[last'.i].pc = "post"
            /\ sessions'[Len(sessions')].send = last'.i
      /\ \A k \in DOMAIN sends' :
            \A i \in At(messages', [t |-> "user", k |-> k]) :
              \A j \in At(messages', [t |-> "asst", k |-> k]) : i < j ]_vars

\* C10 witness: the user entry and the assistant entry of one submission
C10_Witness ==
  \E k \in DOMAIN sends :
    \E i \in At(messages, [t |-> "user", k |-> k]) :
      \E j \in At(messages, [t |-> "asst", k |-> k]) : i < j /\ messages[j].content /= <<>>

\* the POST of send k settles in this step
PostStep(k) == sends[k].pc = "post" /\ sends'[k].pc = "settled" /\ last'.op = "post" /\ last'.i = k

\* C11: when the POST of a submission fails (rejected fetch or non-success
\* status), the transcript is left as it is (the user entry is not rolled
\* back), no EventSource is created, no pending entry is appended, the
\* progress flag, the buffer and the reference are untouched, nothing else
\* of the state changes but the sending flag, and no POST is issued again.
C11_SendFailure ==
  [][ \A k \in DOMAIN sends : PostStep(k) /\ last'.kind \in {"status", "throw"} =>
        /\ messages' = messages
        /\ sessions' = sessions
        /\ UNCHANGED <<mounted, encounterId, acts, input, isStreaming, sseRef, assistantBufferRef, navigated>>
        /\ Len(sends') = Len(sends)
        /\ sends'[k].posts = 1
        /\ \A j \in DOMAIN sends : j /= k => sends'[j] = sends[j] ]_vars

\* C11 witness: the POST came back with a non-success status and the user
\* entry is in the transcript, with no assistant entry and no session
C11_Witness ==
  /\ last.op = "post" /\ last.kind = "status" /\ last.i = 1 /\ Len(sends) = 1
  /\ At(messages, [t |-> "user", k |-> 1]) /= {}
  /\ At(messages, [t |-> "asst", k |-> 1]) = {}
  /\ sessions = <<>> /\ ~isSending

\* C12: in every reachable state each termination has issued one end
\* request; it has issued no generation request while the end request is in
\* flight, and exactly one once the end request has settled, whatever its
\* outcome was.
C12_GenerationAfterEnd ==
  \A t \in DOMAIN terms :
    /\ terms[t].ends = 1
    /\ terms[t].gens = IF terms[t].pc = "end" THEN 0 ELSE 1

\* C12 witness: the end request was rejected and the generation request is in flight
C12_Witness ==
  /\ last.op = "endsettle" /\ last.kind = "throw"
  /\ terms[last.i].pc = "gen" /\ terms[last.i].gens = 1

\* the generation request of termination t settles in this step
GenStep(t) == terms[t].pc = "gen" /\ terms'[t].pc = "done" /\ last'.op = "gen" /\ last'.i = t

\* C13 (as claimed): when the generation request fails, the note becomes the
\* fallback template with the chief complaint the view holds at that moment
\* (the placeholder when none is set) and the time of generation, and the
\* dialog is open.
C13_FallbackArtifact ==
  [][ \A t \in DOMAIN terms : GenStep(t) /\ last'.kind \in Failures /\ mounted =>
        /\ noteMD' = FallbackNote(chiefComplaint, now)
        /\ noteOpen' ]_vars

\* C14 (as claimed): when the generation request of a termination has
\* settled, the dialog is open, the loading flag is false and the note is
\* not empty, for every outcome of the two requests.
C14_TerminationYieldsArtifact ==
  [][ \A t \in DOMAIN terms : GenStep(t) /\ mounted =>
        noteOpen' /\ ~noteLoading' /\ noteMD' /= <<>> ]_vars

\* C15 (as claimed): when the generation request succeeds with note text T
\* the note becomes T, and the chief complaint becomes the returned value
\* when the response has one and is unchanged when it has none.
C15_GenSuccessAnyChief ==
  [][ \A t \in DOMAIN terms : GenStep(t) /\ last'.kind = "ok" /\ mounted =>
        /\ noteMD' = last'.content
        /\ chiefComplaint' = IF terms'[t].chief.set THEN terms'[t].chief ELSE chiefComplaint ]_vars

\* C15 (amended): when the generation request succeeds with note text T the
\* note becomes T; the chief complaint becomes the returned value when the
\* response has a non-empty one and is unchanged when it has none or an
\* empty one; the dialog is opened and the loading flag cleared.
C15_GenSuccess ==
  [][ \A t \in DOMAIN terms : GenStep(t) /\ last'.kind = "ok" /\ mounted =>
        /\ noteMD' = last'.content
        /\ chiefComplaint' = IF terms'[t].chief.set /\ terms'[t].chief.text /= <<>>
                                THEN terms'[t].chief ELSE chiefComplaint
        /\ noteOpen' /\ ~noteLoading' ]_vars

\* C15 witness: the second generation succeeded with a note and without a
\* chief complaint, after the first had set one
C15_Witness ==
  /\ Len(terms) = 2 /\ last.op = "gen" /\ last.kind = "ok" /\ last.i = 2
  /\ terms[1].pc = "done" /\ terms[1].chief = Some(<<"c">>)
  /\ terms[2].pc = "done" /\ terms[2].chief = Undefined
  /\ noteMD = <<"n">> /\ chiefComplaint = Some(<<"c">>) /\ noteOpen

\* an error event is handled on session s in this step
ErrorStep(s) == sessions[s].open /\ last'.op = "error" /\ last'.i = s /\ ~sessions'[s].open

\* C16: when an error event is dispatched on a live session, before or
\* after its first token, the connection is closed, the reference is null,
\* the progress flag is false, the transcript is unchanged, so that the
\* entry of the session keeps the deltas accumulated so far, no EventSource
\* is created and no request is issued.
C16_StreamError ==
  [][ \A s \in DOMAIN sessions : ErrorStep(s) =>
        /\ sseRef' = 0
        /\ ~isStreaming'
        /\ messages' = messages
        /\ \A i \in At(messages', [t |-> "asst", k |-> sessions[s].send]) :
              messages'[i].content = sessions[s].recv
        /\ Len(sessions') = Len(sessions)
        /\ \A r \in DOMAIN sessions : r /= s => sessions'[r] = sessions[r]
        /\ UNCHANGED <<sends, acts, assistantBufferRef>> ]_vars

\* C16 witness: the error came after a token and the entry keeps the delta
C16_Witness ==
  /\ last.op = "error" /\ mounted /\ ~sessions[last.i].open /\ sessions[last.i].n = 1
  /\ sseRef = 0 /\ ~isStreaming
  /\ \E i \in At(messages, [t |-> "asst", k |-> sessions[last.i].send]) : messages[i].content = <<"a">>

\* a token event is handled on session s in this step
TokenStep(s) == sessions[s].open /\ last'.op = "token" /\ last'.i = s /\ sessions'[s].n = sessions[s].n + 1

\* C17 (as claimed): a token payload that is a structured fragment with a
\* delta field adds that delta to the buffer, every other payload adds its
\* own text; the session stays open.
C17_TokenPayloadHandling ==
  [][ \A s \in DOMAIN sessions : TokenStep(s) =>
        /\ assistantBufferRef' = assistantBufferRef \o last'.content
        /\ sessions'[s].open ]_vars

\* C19: but for a bootstrap, which replaces the transcript, and the unmount,
\* a step leaves every entry at its position with its id, role, creation
\* time and origin, and only appends; a token event does not change the
\* length; in every state the creation times do not decrease along the
\* transcript.
C19_TranscriptOrder ==
  [][ /\ mounted' /\ ~(last'.op = "boot" /\ last' /= last) =>
            /\ Len(messages') >= Len(messages)
            /\ \A i \in DOMAIN messages :
                  /\ messages'[i].uid = messages[i].uid
                  /\ messages'[i].id = messages[i].id
                  /\ messages'[i].role = messages[i].role
                  /\ messages'[i].createdAt = messages[i].createdAt
      /\ last'.op = "token" /\ last' /= last => Len(messages') = Len(messages)
      /\ \A i, j \in DOMAIN messages' : i < j => messages'[i].createdAt <= messages'[j].createdAt ]_vars

\* C19 witness: a token updated an assistant entry that is not the last
\* one of a transcript whose entries were created at different times
C19_Witness ==
  /\ last.op = "token" /\ Len(messages) >= 4
  /\ messages[1].createdAt < messages[Len(messages)].createdAt
  /\ \E i \in DOMAIN messages : i < Len(messages) /\ messages[i].uid.t = "asst" /\ messages[i].content /= <<>>

\* C20: with note text T in the dialog, a copy the clipboard accepts leaves
\* exactly T on the clipboard, a copy it rejects leaves the clipboard as it
\* was, a save produces a file whose content is exactly T, and neither
\* changes T or anything else of the view, so that a repeated copy or save
\* gives the same text.
C20_ReviewActions ==
  [][ /\ last'.op = "copy" /\ last' /= last =>
            /\ clipboard' = IF last'.kind = "ok" THEN Some(noteMD) ELSE clipboard
            /\ UNCHANGED <<noteMD, noteOpen, noteLoading, chiefComplaint, terms, saved>>
      /\ last'.op = "save" /\ last' /= last =>
            /\ saved' = Some(noteMD)
            /\ UNCHANGED <<noteMD, noteOpen, noteLoading, chiefComplaint, terms, clipboard>>
      /\ clipboard' /= clipboard => last'.op = "copy" /\ last'.content = noteMD
      /\ saved' /= saved => last'.op = "save" /\ last'.content = noteMD ]_vars

\* C20 witness: the note n was copied and then saved
C20_Witness ==
  /\ last.op = "save" /\ noteOpen /\ noteMD = <<"n">>
  /\ clipboard = Some(<<"n">>) /\ saved = Some(<<"n">>)

\* the EventSources opened for submission k
StreamsOf(k) == {s \in DOMAIN sessions : sessions[s].send = k}

\* C18: every submission has issued exactly one POST and opened at most
\* one EventSource, every termination one end request and at most one
\* generation request, every run of the effect one greeting fetch; a
\* submission, a termination or a run of the effect is added only by the
\* user (send, end button, navigation), an EventSource only by a POST that
\* succeeded, and the step that handles a failed greeting fetch, a failed
\* POST, a failed generation request or a stream error issues no request.
C18_NoAutomaticRetries ==
  [][ /\ \A k \in DOMAIN sends' : sends'[k].posts = 1 /\ Cardinality(StreamsOf(k)') <= 1
      /\ \A t \in DOMAIN terms' : terms'[t].ends = 1 /\ terms'[t].gens <= 1
      /\ \A a \in DOMAIN acts' : acts'[a].fetches = 1
      /\ Len(sends') > Len(sends) => last'.op = "send"
      /\ Len(terms') > Len(terms) => last'.op = "end"
      /\ Len(acts') > Len(acts) => last'.op = "change"
      /\ Len(sessions') > Len(sessions) => last'.op = "post" /\ last'.kind = "ok"
      /\ \A t \in DOMAIN terms : terms'[t].gens > terms[t].gens => last'.op = "endsettle" /\ last'.i = t
      /\ \/ last'.op = "boot" /\ last'.kind \in Failures
         \/ last'.op = "post" /\ last'.kind /= "ok"
         \/ last'.op = "gen" /\ last'.kind \in Failures
         \/ last'.op = "error"
         => /\ Len(sends') = Len(sends) /\ Len(terms') = Len(terms) /\ Len(acts') = Len(acts)
            /\ Len(sessions') = Len(sessions)
            /\ \A k \in DOMAIN sends : sends'[k].posts = sends[k].posts
            /\ \A t \in DOMAIN terms : terms'[t].gens = terms[t].gens /\ terms'[t].ends = terms[t].ends
            /\ \A a \in DOMAIN acts : acts'[a].fetches = acts[a].fetches ]_vars

\* C18 witness: the greeting fetch failed, the first POST failed, the
\* stream of the second submission has ended and the generation request failed
C18_Witness ==
  /\ last.op = "gen" /\ last.kind = "throw"
  /\ Len(terms) = 1 /\ terms[1].pc = "done" /\ terms[1].gens = 1
  /\ Len(sends) = 2 /\ sends[1].pc = "settled" /\ sends[2].pc = "settled"
  /\ StreamsOf(1) = {} /\ StreamsOf(2) = {1} /\ ~sessions[1].open /\ sseRef = 0
  /\ Len(acts) = 1 /\ acts[1].pc = "done" /\ IsSeed(SubSeq(messages, 1, 2), DefaultGreeting)

\* C21: a copy, a save or a close-and-return adds no termination and issues
\* no end or generation request (the closures of the terminations are
\* unchanged) and leaves the note text, the loading flag and the chief
\* complaint as they are; a copy and a save leave the dialog open and do
\* not navigate; the close-and-return closes the dialog and navigates to
\* the entry point.
C21_ReviewActionsFrame ==
  [][ /\ last'.op \in {"copy", "save", "home"} /\ last' /= last =>
            /\ terms' = terms
            /\ UNCHANGED <<noteMD, noteLoading, chiefComplaint, chatVars, acts, mounted, encounterId>>
      /\ last'.op \in {"copy", "save"} /\ last' /= last =>
            noteOpen' /\ noteOpen /\ navigated' = navigated
      /\ last'.op = "home" /\ last' /= last =>
            noteOpen /\ ~noteOpen' /\ navigated' /\ UNCHANGED <<clipboard, saved>> ]_vars

\* C21 witness: the dialog was closed by the close-and-return button while
\* a second termination was in flight, after a copy and a save of the note
C21_Witness ==
  /\ last.op = "home" /\ navigated /\ ~noteOpen /\ noteMD = <<"n">>
  /\ clipboard = Some(<<"n">>) /\ saved = Some(<<"n">>)
  /\ Len(terms) = 2 /\ terms[1].pc = "done" /\ terms[2].pc = "gen" /\ terms[2].gens = 1

\* a done event is handled on session s in this step
DoneStep(s) == sessions[s].open /\ last'.op = "done" /\ last'.i = s /\ ~sessions'[s].open

\* C22: when a done event is dispatched on the live session, the
\* connection is closed, the reference is null, the progress flag is false
\* and the transcript is unchanged: the entry of the session holds the
\* deltas received so far; the buffer, the other sessions and the
\* submissions are untouched.
C22_Completion ==
  [][ \A s \in DOMAIN sessions : DoneStep(s) =>
        /\ sseRef = s /\ sseRef' = 0
        /\ ~isStreaming'
        /\ messages' = messages
        /\ \A i \in At(messages', [t |-> "asst", k |-> sessions[s].send]) :
              messages'[i].content = sessions[s].recv
        /\ Len(sessions') = Len(sessions)
        /\ \A r \in DOMAIN sessions : r /= s => sessions'[r] = sessions[r]
        /\ UNCHANGED <<sends, acts, assistantBufferRef, input, isSending>> ]_vars

\* C22 witness: the stream completed after two deltas
C22_Witness ==
  /\ last.op = "done" /\ mounted /\ ~sessions[last.i].open /\ sessions[last.i].n = 2
  /\ sseRef = 0 /\ ~isStreaming
  /\ \E i \in At(messages, [t |-> "asst", k |-> sessions[last.i].send]) : messages[i].content = <<"a", "b">>

\* openSSE() runs in this step, called by the continuation of submission k
OpenStep(k) == PostStep(k) /\ last'.kind = "ok"

\* C23: when openSSE runs in a mounted view, the transcript becomes the
\* transcript before with one entry appended, an assistant entry with empty
\* content and the id asst-now; the buffer is empty, the progress flag is
\* set, one EventSource is added and it is the referenced one.
C23_OpenEffect ==
  [][ \A k \in DOMAIN sends : OpenStep(k) /\ mounted =>
        /\ Len(messages') = Len(messages) + 1
        /\ SubSeq(messages', 1, Len(messages)) = messages
        /\ messages'[Len(messages')].role = "assistant"
        /\ messages'[Len(messages')].content = <<>>
        /\ messages'[Len(messages')].id = [p |-> "asst", n |-> now]
        /\ messages'[Len(messages')].uid = [t |-> "asst", k |-> k]
        /\ assistantBufferRef' = <<>>
        /\ isStreaming'
        /\ Len(sessions') = Len(sessions) + 1
        /\ sseRef' = Len(sessions') /\ sessions'[sseRef'].open ]_vars

\* C23 witness: openSSE ran for the second submission after the first
\* stream had filled the buffer and its entry
C23_Witness ==
  /\ last.op = "post" /\ last.kind = "ok" /\ last.i = 2 /\ mounted
  /\ Len(sessions) = 2 /\ sseRef = 2 /\ isStreaming /\ assistantBufferRef = <<>>
  /\ messages[Len(messages)].uid = [t |-> "asst", k |-> 2] /\ messages[Len(messages)].content = <<>>
  /\ \E i \in At(messages, [t |-> "asst", k |-> 1]) : messages[i].content = <<"a", "b">>

\* C24: a token event handled in a mounted view leaves the length of the
\* transcript; an entry whose id is the pending id of the session gets the
\* whole buffer, as it is after the delta was added, as its content and
\* keeps its other fields; every entry with another id is unchanged, so
\* that a transcript without an entry of that id is unchanged.
C24_TokenFrame ==
  [][ \A s \in DOMAIN sessions : TokenStep(s) /\ mounted =>
        /\ Len(messages') = Len(messages)
        /\ \A i \in DOMAIN messages :
              IF messages[i].id = sessions[s].tempId
                THEN messages'[i] = [messages[i] EXCEPT !.content = assistantBufferRef']
                ELSE messages'[i] = messages[i]
        /\ (\A i \in DOMAIN messages : messages[i].id /= sessions[s].tempId) => messages' = messages ]_vars

\* C24 witness: the second token of a session replaced the content of its
\* entry by both deltas, beside a greeting and a user entry
C24_Witness ==
  /\ last.op = "token" /\ mounted /\ sessions[last.i].open /\ assistantBufferRef = <<"a", "b">>
  /\ Len(messages) = 4 /\ IsSeed(SubSeq(messages, 1, 2), DefaultGreeting)
  /\ messages[3].role = "user" /\ messages[3].content = <<"h">>
  /\ messages[4].id = sessions[last.i].tempId /\ messages[4].content = <<"a", "b">>

\* C25: a submission made while no encounter id is bound navigates to the
\* entry point and changes nothing else: the transcript, the submissions
\* (no POST), the sessions, the sending flag and the compose buffer are as
\* before, whether the compose buffer is empty or not.
C25_UnboundRedirect ==
  [][ last'.op = "send" /\ last' /= last /\ encounterId = NoId =>
        /\ navigated'
        /\ last'.kind = "redirect"
        /\ UNCHANGED <<chatVars, noteVars, acts, mounted, encounterId>> ]_vars

\* C25 witness: a message was submitted without a bound id
C25_Witness ==
  /\ encounterId = NoId /\ last.op = "send" /\ last.kind = "redirect" /\ last.content = <<" ", "h">>
  /\ navigated /\ input = <<" ", "h">> /\ messages = <<>> /\ sends = <<>> /\ sessions = <<>> /\ ~isSending

\* C26 (as claimed): in every reachable state the ids of the entries of
\* the transcript are pairwise distinct, so that the id of a session
\* matches at most one entry.
C26_IdsDistinct ==
  /\ \A i, j \in DOMAIN messages : i /= j => messages[i].id /= messages[j].id
  /\ \A s \in DOMAIN sessions : Cardinality({i \in DOMAIN messages : messages[i].id = sessions[s].tempId}) <= 1

\* C27 (as claimed): a user entry of a submission made in the current run
\* of the effect, and the assistant entry that answers it, are still in the
\* transcript after the step in which the greeting fetch of that run
\* completes.
C27_BootKeepsConversation ==
  [][ \A a \in DOMAIN acts : BootStep(a) /\ ~acts[a].aborted =>
        \A i \in DOMAIN messages :
          /\ messages[i].uid.t \in {"user", "asst"}
          /\ sends[messages[i].uid.k].act = a
          => At(messages', messages[i].uid) /= {} ]_vars

\* C28 (as claimed): the greeting fetch of a disposed run of the effect
\* leaves the transcript as it is when it settles, whatever its outcome.
C28_DisposedBootSilent ==
  [][ \A a \in DOMAIN acts : BootStep(a) /\ acts[a].aborted => messages' = messages ]_vars

\* C29 (as claimed): in every state of the mounted view the progress flag
\* is set exactly when the reference holds an open EventSource.
C29_IndicatorMatchesConnection ==
  mounted => (isStreaming <=> (sseRef /= 0 /\ sessions[sseRef].open))

\* the submissions whose POST is in flight
InFlight == {k \in DOMAIN sends : sends[k].pc = "post"}

\* C30: with submissions made through the compose control, a submission
\* starts only in a state where no POST is in flight and no EventSource is
\* open; at most one POST is in flight in every state; and openSSE never
\* runs while an EventSource is open, so no stream is superseded.
C30_SubmissionGating ==
  [][ /\ Len(sends') > Len(sends) => InFlight = {} /\ Live = {} /\ ~isSending /\ ~isStreaming
      /\ Cardinality(InFlight') <= 1
      /\ Len(sessions') > Len(sessions) => Live = {} /\ sseRef = 0 ]_vars

\* C30 witness: the second submission was made after the first stream had
\* received a token and completed
C30_Witness ==
  /\ Len(sends) = 2 /\ sends[1].pc = "settled" /\ sends[2].pc = "post" /\ isSending
  /\ Len(sessions) = 1 /\ ~sessions[1].open /\ sessions[1].n > 0 /\ ~isStreaming

\* C31: the step in which the POST of a submission settles, with any
\* outcome, leaves the sending flag false; a valid submission sets it; and
\* in every state in which the flag is set a POST is in flight.
C31_SendingReleased ==
  [][ /\ \A k \in DOMAIN sends : PostStep(k) => ~isSending'
      /\ Len(sends') > Len(sends) => isSending'
      /\ isSending' => InFlight' /= {} ]_vars

\* C31 witness: the POST of the second submission was rejected and the flag is released
C31_Witness ==
  /\ last.op = "post" /\ last.kind = "throw" /\ last.i = 2 /\ mounted
  /\ Len(sends) = 2 /\ InFlight = {} /\ ~isSending

\* the terminations whose generation request is in flight
Generating == {t \in DOMAIN terms : terms[t].pc = "gen"}

\* C32 (as claimed): in every state of the mounted view the loading flag is
\* set exactly when a generation request is in flight, and the dialog does
\* not show the note while one is.
C32_LoadingWhileGenerating ==
  mounted =>
    /\ noteLoading <=> Generating /= {}
    /\ ~(noteOpen /\ ~noteLoading /\ Generating /= {})

\* C33: a step of handleEndConsult or generateClinicalNote (the click,
\* the end request settled, the generation request settled) leaves the
\* transcript, the compose buffer, the sending flag, the progress flag, the
\* reference, the buffer, the sessions and the submissions unchanged, so
\* that an open EventSource stays open and referenced; and a token handled
\* once a termination has started still gives the buffer to the entry of
\* its session.
C33_TerminationLeavesChat ==
  [][ /\ last'.op \in {"end", "endsettle", "gen"} /\ last' /= last =>
            /\ UNCHANGED chatVars
            /\ \A s \in Live : sessions'[s].open /\ sseRef' = sseRef
      /\ \A s \in DOMAIN sessions : TokenStep(s) /\ mounted /\ terms /= <<>> =>
            /\ assistantBufferRef' = assistantBufferRef \o TokenDelta([kind |-> last'.kind, content |-> last'.content])
            /\ \A i \in DOMAIN messages : messages[i].id = sessions[s].tempId =>
                  messages'[i].content = assistantBufferRef' ]_vars

\* C33 witness: a stream that was live through a whole termination received
\* a token into its entry afterwards
C33_Witness ==
  /\ last.op = "token" /\ mounted /\ sessions[last.i].open /\ sseRef = last.i /\ isStreaming
  /\ Len(terms) = 1 /\ terms[1].pc = "done" /\ noteOpen
  /\ \E i \in At(messages, [t |-> "asst", k |-> sessions[last.i].send]) : messages[i].content = <<"a">>

====
